---- MODULE Spec2Model ----
(***************************************************************************)
(* EgisTec EH576 probe scripts: the command/response probe helpers, the    *)
(* scripts' claim/release discipline around them, and the response         *)
(* classifiers, as state machines.                                         *)
(*                                                                         *)
(* A response buffer is a sequence of segments [lo, hi, rep]: the bytes    *)
(* lo, lo+1, .., hi, each repeated rep times in a row.  Every computation  *)
(* the scripts make on a buffer (len, count of non-zero bytes, set of      *)
(* values, emptiness) is computed on this form exactly.                    *)
(***************************************************************************)
EXTENDS Integers, Sequences, FiniteSets, TLC

\* ---------------------------------------------------------------- bounds
\* commands a script run sends from its list of command frames
MaxCmds == 2
\* segments of a buffer handed to a classifier
MaxSegs == 2
\* times a classifier is called on the same buffer
MaxClassifyCalls == 2
\* files analyze_captures.main finds on disk
MaxFiles == 2



\* ------------------------------------------------------ program constants
bulk_out == 1
bulk_in == 130
intr_in == <<131, 132>>
\* analyze_capture_quality: shortest buffer that is analysed
MinAnalysisLen == 100
\* default expected_response_size / length of the helpers
DefaultResponseSize == 64
\* buffer size the scripts ask for on image commands
ImageResponseSize == 6000

\* ---------------------------------------------------------------- buffers
Seg(lo, hi, rep) == [lo |-> lo, hi |-> hi, rep |-> rep]

RECURSIVE BufLen(_)
\* len(data)
BufLen(b) ==
    IF b = <<>> THEN 0
    ELSE (Head(b).hi - Head(b).lo + 1) * Head(b).rep + BufLen(Tail(b))

RECURSIVE NonZeroBytes(_)
\* sum(1 for b in data if b != 0)
NonZeroBytes(b) ==
    IF b = <<>> THEN 0
    ELSE Cardinality({v \in Head(b).lo .. Head(b).hi : v # 0}) * Head(b).rep
         + NonZeroBytes(Tail(b))

\* the set of values with the zero byte left out
ByteValuesNonZero(b) == UNION {b[k].lo .. b[k].hi : k \in 1..Len(b)} \ {0}

\* set(data)
ByteValues(b) == UNION {b[k].lo .. b[k].hi : k \in 1..Len(b)}

\* buffers the transport delivers to the probe helpers
ProbeBuffers ==
    { <<>>,
      <<Seg(0, 0, 7)>>,
      <<Seg(1, 7, 1)>>,
      <<Seg(0, 0, 100)>>,
      <<Seg(1, 4, 25)>>,
      <<Seg(0, 0, 5900), Seg(1, 100, 1)>> }

\* ----------------------------------------------------------- value shapes
NoBuf == <<>>
NoneV == [kind |-> "None", buf |-> NoBuf, num |-> 0, den |-> 1]
\* a percentage num/den * 100
PctV(n, d) == [kind |-> "pct", buf |-> NoBuf, num |-> n, den |-> d]
BufV(b) == [kind |-> "buf", buf |-> b, num |-> 0, den |-> 1]
\* dev.write's return (number of bytes written)
WrittenV == [kind |-> "written", buf |-> NoBuf, num |-> 0, den |-> 1]

\* what a step of a helper decides: go on to a read, return, or raise
Step(next, ret, cause, log, exc) ==
    [next |-> next, ret |-> ret, cause |-> cause, log |-> log, exc |-> exc]

\* --------------------------------------------------- transport outcomes
\* dev.write: completes, raises usb.core.USBError, or is interrupted (Ctrl+C)
WriteOutcomes == {"ok", "error", "interrupt"}

\* dev.read(ep, max_len, timeout): delivers at most max_len bytes (a
\* zero-length transfer delivers none), raises USBError with 'timeout' in its
\* message ("timeout"), raises another USBError ("error"), raises an
\* exception that is not a USBError, such as pyusb's ValueError for an
\* endpoint the device does not have ("exception"), or is interrupted
ReadOutcomes(max_len) ==
    {[kind |-> "data", buf |-> b] : b \in {x \in ProbeBuffers : BufLen(x) <= max_len}}
    \cup {[kind |-> k, buf |-> NoBuf] : k \in {"timeout", "error", "exception", "interrupt"}}

\* ------------------------------------------------------- probe helpers
\* percentage the inline classifiers compute: non_zero / len(resp) * 100
pct(b) == PctV(NonZeroBytes(b), BufLen(b))

\* send_and_receive with the send error only printed: the read still follows
send_and_receive_write_then_read(w) ==
    CASE w = "ok" -> Step("read", NoneV, "none", "Sent", "none")
      [] w = "error" -> Step("read", NoneV, "send_failed", "Send error", "none")
      [] w = "interrupt" -> Step("raise", NoneV, "interrupted", "", "KeyboardInterrupt")

\* send_and_receive (adaptive_calibration, eh575_calibration_protocol,
\* advanced_capture, capture_fingerprint): after dev.write
send_and_receive_write(w) ==
    CASE w = "ok" -> Step("read", NoneV, "none", "Sent", "none")
      [] w = "error" -> Step("return", NoneV, "send_failed", "Send error", "none")
      [] w = "interrupt" -> Step("raise", NoneV, "interrupted", "", "KeyboardInterrupt")

\* send_and_receive that sends the command again when the read timed out
send_and_receive_read_resend(r) ==
    CASE r.kind = "data" -> Step("return", BufV(r.buf), "received", "Response", "none")
      [] r.kind = "timeout" -> Step("write", NoneV, "timeout", "", "none")
      [] r.kind = "error" -> Step("return", NoneV, "read_error", "Read error", "none")
      [] r.kind = "exception" -> Step("return", NoneV, "read_error", "Send error", "none")
      [] r.kind = "interrupt" -> Step("raise", NoneV, "interrupted", "", "KeyboardInterrupt")

\* send_and_receive: after dev.read(0x82, expected_response_size)
send_and_receive_read(r) ==
    CASE r.kind = "data" -> Step("return", BufV(r.buf), "received", "Response", "none")
      [] r.kind = "timeout" -> Step("return", NoneV, "timeout", "", "none")
      [] r.kind = "error" -> Step("return", NoneV, "read_error", "Read error", "none")
      [] r.kind = "exception" -> Step("return", NoneV, "read_error", "Send error", "none")
      [] r.kind = "interrupt" -> Step("raise", NoneV, "interrupted", "", "KeyboardInterrupt")

\* critical_command_finder.test_cmd: the bare except catches everything
test_cmd_write(w) ==
    CASE w = "ok" -> Step("read", NoneV, "none", "", "none")
      [] w = "error" -> Step("return", PctV(0, 1), "send_failed", "Failed", "none")
      [] w = "interrupt" -> Step("return", PctV(0, 1), "interrupted", "Failed", "none")

test_cmd_read(r) ==
    CASE r.kind = "data" /\ BufLen(r.buf) > 0 ->
             Step("return", pct(r.buf), "received", "pct", "none")
      [] r.kind = "data" /\ BufLen(r.buf) = 0 ->
             \* ZeroDivisionError, caught by the bare except
             Step("return", PctV(0, 1), "received", "Failed", "none")
      [] r.kind = "timeout" -> Step("return", PctV(0, 1), "timeout", "Failed", "none")
      [] r.kind = "error" -> Step("return", PctV(0, 1), "read_error", "Failed", "none")
      [] r.kind = "exception" -> Step("return", PctV(0, 1), "read_error", "Failed", "none")
      [] r.kind = "interrupt" -> Step("return", PctV(0, 1), "interrupted", "Failed", "none")

\* simple_test.test: no exception handling at all
test_write(w) ==
    CASE w = "ok" -> Step("read", NoneV, "none", "", "none")
      [] w = "error" -> Step("raise", NoneV, "send_failed", "", "USBError")
      [] w = "interrupt" -> Step("raise", NoneV, "interrupted", "", "KeyboardInterrupt")

test_read(r) ==
    CASE r.kind = "data" /\ BufLen(r.buf) > 0 ->
             Step("return", pct(r.buf), "received", "pct", "none")
      [] r.kind = "data" /\ BufLen(r.buf) = 0 ->
             Step("raise", NoneV, "received", "", "ZeroDivisionError")
      [] r.kind = "timeout" -> Step("raise", NoneV, "timeout", "", "USBError")
      [] r.kind = "error" -> Step("raise", NoneV, "read_error", "", "USBError")
      [] r.kind = "exception" -> Step("raise", NoneV, "read_error", "", "ValueError")
      [] r.kind = "interrupt" -> Step("raise", NoneV, "interrupted", "", "KeyboardInterrupt")

\* MANUAL_TEST.test_cmd: as simple_test.test
manual_test_cmd_write(w) ==
    CASE w = "ok" -> Step("read", NoneV, "none", "", "none")
      [] w = "error" -> Step("raise", NoneV, "send_failed", "", "USBError")
      [] w = "interrupt" -> Step("raise", NoneV, "interrupted", "", "KeyboardInterrupt")

manual_test_cmd_read(r) ==
    CASE r.kind = "data" /\ BufLen(r.buf) > 0 ->
             Step("return", pct(r.buf), "received", "pct", "none")
      [] r.kind = "data" /\ BufLen(r.buf) = 0 ->
             Step("raise", NoneV, "received", "", "ZeroDivisionError")
      [] r.kind = "timeout" -> Step("raise", NoneV, "timeout", "", "USBError")
      [] r.kind = "error" -> Step("raise", NoneV, "read_error", "", "USBError")
      [] r.kind = "exception" -> Step("raise", NoneV, "read_error", "", "ValueError")
      [] r.kind = "interrupt" -> Step("raise", NoneV, "interrupted", "", "KeyboardInterrupt")

\* critical_test.test_command: as simple_test.test, inside main's try
test_command_write(w) ==
    CASE w = "ok" -> Step("read", NoneV, "none", "Testing", "none")
      [] w = "error" -> Step("raise", NoneV, "send_failed", "Testing", "USBError")
      [] w = "interrupt" -> Step("raise", NoneV, "interrupted", "Testing", "KeyboardInterrupt")

test_command_read(r) ==
    CASE r.kind = "data" /\ BufLen(r.buf) > 0 ->
             Step("return", pct(r.buf), "received", "Result", "none")
      [] r.kind = "data" /\ BufLen(r.buf) = 0 ->
             Step("raise", NoneV, "received", "Testing", "ZeroDivisionError")
      [] r.kind = "timeout" -> Step("raise", NoneV, "timeout", "Testing", "USBError")
      [] r.kind = "error" -> Step("raise", NoneV, "read_error", "Testing", "USBError")
      [] r.kind = "exception" -> Step("raise", NoneV, "read_error", "Testing", "ValueError")
      [] r.kind = "interrupt" -> Step("raise", NoneV, "interrupted", "Testing", "KeyboardInterrupt")

\* enhanced_test.send_command, and try_fingerprint_commands' `continue`
\* when it returned None
send_command(w) ==
    CASE w = "ok" -> Step("read", WrittenV, "none", "Sent", "none")
      [] w = "error" -> Step("return", NoneV, "send_failed", "Failed to send command", "none")
      [] w = "interrupt" -> Step("raise", NoneV, "interrupted", "", "KeyboardInterrupt")

\* enhanced_test.read_response, called once per IN endpoint
read_response(r) ==
    CASE r.kind = "data" -> Step("nextep", BufV(r.buf), "received", "Received", "none")
      [] r.kind = "timeout" -> Step("nextep", NoneV, "timeout", "", "none")
      [] r.kind = "error" -> Step("nextep", NoneV, "read_error", "Read error", "none")
      [] r.kind = "exception" -> Step("raise", NoneV, "read_error", "", "ValueError")
      [] r.kind = "interrupt" -> Step("raise", NoneV, "interrupted", "", "KeyboardInterrupt")

\* polling.try_init_commands: dev.write inside the loop's try/except Exception
try_init_commands_write(w) ==
    CASE w = "ok" -> Step("read", NoneV, "none", "Sent EgisTec command", "none")
      [] w = "error" -> Step("return", NoneV, "send_failed", "EgisTec command failed", "none")
      [] w = "interrupt" -> Step("raise", NoneV, "interrupted", "", "KeyboardInterrupt")

\* polling.read_endpoint, called once per IN endpoint
read_endpoint(r) ==
    CASE r.kind = "data" -> Step("nextep", BufV(r.buf), "received", "DATA RECEIVED", "none")
      [] r.kind = "timeout" -> Step("nextep", NoneV, "timeout", "", "none")
      [] r.kind = "error" -> Step("nextep", NoneV, "read_error", "Error reading", "none")
      [] r.kind = "exception" -> Step("raise", NoneV, "read_error", "", "ValueError")
      [] r.kind = "interrupt" -> Step("raise", NoneV, "interrupted", "", "KeyboardInterrupt")


\* polling.try_init_commands: read_endpoint called inside the loop's
\* try/except Exception, which ends this command when it raises
try_init_commands_read(r) ==
    LET st == read_endpoint(r) IN
    IF st.next = "raise" /\ st.exc # "KeyboardInterrupt"
    THEN Step("return", NoneV, st.cause, "EgisTec command failed", "none")
    ELSE st

\* test_device.test_egis_device, body of the command loop: dev.write inside
\* try/except usb.core.USBError
test_egis_device_write(w) ==
    CASE w = "ok" -> Step("read", NoneV, "none", "Command sent successfully", "none")
      [] w = "error" -> Step("return", NoneV, "send_failed", "Send error", "none")
      [] w = "interrupt" -> Step("raise", NoneV, "interrupted", "", "KeyboardInterrupt")

\* test_egis_device: dev.read inside the inner try/except usb.core.USBError
test_egis_device_read(r) ==
    CASE r.kind = "data" -> Step("return", BufV(r.buf), "received", "Response", "none")
      [] r.kind = "timeout" -> Step("return", NoneV, "timeout", "No response (timeout)", "none")
      [] r.kind = "error" -> Step("return", NoneV, "read_error", "Read error", "none")
      [] r.kind = "exception" -> Step("raise", NoneV, "read_error", "", "ValueError")
      [] r.kind = "interrupt" -> Step("raise", NoneV, "interrupted", "", "KeyboardInterrupt")

\* quick_test, body of the command loop: dev.write inside try/except Exception
quick_test_write(w) ==
    CASE w = "ok" -> Step("read", NoneV, "none", "Sending", "none")
      [] w = "error" -> Step("return", NoneV, "send_failed", "Send error", "none")
      [] w = "interrupt" -> Step("raise", NoneV, "interrupted", "", "KeyboardInterrupt")

\* quick_test: dev.read inside the inner try/except usb.core.USBError
quick_test_read(r) ==
    CASE r.kind = "data" -> Step("return", BufV(r.buf), "received", "Response", "none")
      [] r.kind = "timeout" -> Step("return", NoneV, "timeout", "No response (timeout)", "none")
      [] r.kind = "error" -> Step("return", NoneV, "read_error", "Read error", "none")
      [] r.kind = "exception" -> Step("return", NoneV, "read_error", "Send error", "none")
      [] r.kind = "interrupt" -> Step("raise", NoneV, "interrupted", "", "KeyboardInterrupt")

\* ---------------------------------------------------------- classifiers
RECURSIVE ByteSum(_)
\* sum(data)
ByteSum(b) ==
    IF b = <<>> THEN 0
    ELSE Head(b).rep * (((Head(b).lo + Head(b).hi) * (Head(b).hi - Head(b).lo + 1)) \div 2)
         + ByteSum(Tail(b))

\* 0^2 + 1^2 + .. + n^2
SquaresUpTo(n) == (n * (n + 1) * (2 * n + 1)) \div 6

RECURSIVE ByteSquareSum(_)
\* sum(b ** 2 for b in data)
ByteSquareSum(b) ==
    IF b = <<>> THEN 0
    ELSE Head(b).rep * (SquaresUpTo(Head(b).hi)
                          - (IF Head(b).lo = 0 THEN 0 ELSE SquaresUpTo(Head(b).lo - 1)))
         + ByteSquareSum(Tail(b))

\* quality_score = percentage * entropy * (variance / 100), kept as the exact
\* quantities it is computed from: non-zero count, length, distinct values,
\* sum and sum of squares of the bytes
ScoreV(nz, n, u, s1, s2) == [nz |-> nz, total |-> n, unique |-> u, s1 |-> s1, s2 |-> s2]
\* the literal 0 returned with "No data"
ZeroScore == ScoreV(0, 1, 0, 0, 0)

\* ------------------------------------------------ comparing scores
\* quality_score and the numbers it is compared with are kept exact: naturals
\* beyond one machine word are sequences of base-1000 digits, least
\* significant first, with no leading zero digit
BigBase == 1000

RECURSIVE BigFromInt(_)
BigFromInt(k) ==
    IF k = 0 THEN <<>> ELSE <<k % BigBase>> \o BigFromInt(k \div BigBase)

RECURSIVE BigMulCarry(_, _, _)
BigMulCarry(x, k, c) ==
    IF x = <<>> THEN BigFromInt(c)
    ELSE LET t == Head(x) * k + c
         IN <<t % BigBase>> \o BigMulCarry(Tail(x), k, t \div BigBase)

\* x * k for a factor k below 2^21
BigMul(x, k) == IF k = 0 THEN <<>> ELSE BigMulCarry(x, k, 0)

RECURSIVE BigTrim(_)
BigTrim(x) ==
    IF x # <<>> /\ x[Len(x)] = 0 THEN BigTrim(SubSeq(x, 1, Len(x) - 1)) ELSE x

RECURSIVE BigSubBorrow(_, _, _)
BigSubBorrow(x, y, b) ==
    IF x = <<>> THEN <<>>
    ELSE LET d == Head(x) - (IF y = <<>> THEN 0 ELSE Head(y)) - b
         IN <<IF d < 0 THEN d + BigBase ELSE d>>
            \o BigSubBorrow(Tail(x), IF y = <<>> THEN <<>> ELSE Tail(y),
                            IF d < 0 THEN 1 ELSE 0)

\* x - y for x >= y
BigSub(x, y) == BigTrim(BigSubBorrow(x, y, 0))

RECURSIVE BigLessFrom(_, _, _)
BigLessFrom(x, y, k) ==
    IF k = 0 THEN FALSE
    ELSE IF x[k] # y[k] THEN x[k] < y[k]
    ELSE BigLessFrom(x, y, k - 1)

\* x < y
BigLess(x, y) ==
    Len(x) < Len(y) \/ (Len(x) = Len(y) /\ BigLessFrom(x, y, Len(x)))

\* quality_score = percentage * entropy * (variance / 100)
\*   = (100 * nz / n) * (u / 256) * ((n * s2 - s1^2) / n^2) / 100
\*   = nz * u * (n * s2 - s1^2) / (256 * n^3)
\* ScoreNum is the numerator, ScoreDen is n^3
ScoreNum(s) ==
    BigMul(BigMul(BigSub(BigMul(BigFromInt(s.s2), s.total),
                         BigMul(BigFromInt(s.s1), s.s1)),
                  s.nz),
           s.unique)
ScoreDen(s) == BigMul(BigMul(BigFromInt(s.total), s.total), s.total)

\* a > b for two scores
score_gt(a, b) ==
    BigLess(BigMul(BigMul(BigMul(ScoreNum(b), a.total), a.total), a.total),
            BigMul(BigMul(BigMul(ScoreNum(a), b.total), b.total), b.total))

\* score > t for a literal t
score_gt_const(a, t) == BigLess(BigMul(ScoreDen(a), 256 * t), ScoreNum(a))

\* what a classifier hands back: a status string, the counts its percentage
\* and entropy are made of (when it computed them), a score (adaptive
\* variant), or the exception it raised
Result(status, has_pct, nz, n, u, score, e) ==
    [status |-> status, has_pct |-> has_pct, nz |-> nz, total |-> n,
     unique |-> u, score |-> score, exc |-> e]

PendingResult == Result("pending", FALSE, 0, 1, 0, ZeroScore, "none")
NoData == Result("No data", FALSE, 0, 1, 0, ZeroScore, "none")
Raised(e) == Result("raised", FALSE, 0, 1, 0, ZeroScore, e)

\* the threshold compared with the count of non-zero bytes, not the percentage
percentage_gt_count(nz, n, t) == nz > t

\* percentage > t, with percentage = (non_zero_bytes / total_bytes) * 100
percentage_gt(nz, n, t) == 100 * nz > t * n
\* entropy > t/10, with entropy = unique_values / 256
entropy_gt(u, t) == 10 * u > t * 256

\* analyze_capture_quality counting the zero bytes instead of the non-zero
analyze_capture_quality_adaptive_zero_count(b) ==
    IF BufLen(b) = 0 \/ BufLen(b) < MinAnalysisLen
    THEN NoData
    ELSE LET n == BufLen(b)
             nz == n - NonZeroBytes(b)
             u == Cardinality(ByteValues(b))
             status ==
                 IF percentage_gt(nz, n, 30) /\ entropy_gt(u, 4) THEN "EXCELLENT"
                 ELSE IF percentage_gt(nz, n, 15) /\ entropy_gt(u, 2) THEN "GOOD"
                 ELSE IF percentage_gt(nz, n, 5) /\ entropy_gt(u, 1) THEN "FAIR"
                 ELSE "POOR"
         IN Result(status, TRUE, nz, n, u,
                   ScoreV(nz, n, u, ByteSum(b), ByteSquareSum(b)), "none")

\* analyze_capture_quality with the other script's top-tier cut point
analyze_capture_quality_adaptive_cut50(b) ==
    IF BufLen(b) = 0 \/ BufLen(b) < MinAnalysisLen
    THEN NoData
    ELSE LET nz == NonZeroBytes(b)
             n == BufLen(b)
             u == Cardinality(ByteValues(b))
             status ==
                 IF percentage_gt(nz, n, 50) /\ entropy_gt(u, 4) THEN "EXCELLENT"
                 ELSE IF percentage_gt(nz, n, 15) /\ entropy_gt(u, 2) THEN "GOOD"
                 ELSE IF percentage_gt(nz, n, 5) /\ entropy_gt(u, 1) THEN "FAIR"
                 ELSE "POOR"
         IN Result(status, TRUE, nz, n, u,
                   ScoreV(nz, n, u, ByteSum(b), ByteSquareSum(b)), "none")

\* adaptive_calibration.analyze_capture_quality
analyze_capture_quality_adaptive(b) ==
    IF BufLen(b) = 0 \/ BufLen(b) < MinAnalysisLen
    THEN NoData
    ELSE LET nz == NonZeroBytes(b)
             n == BufLen(b)
             u == Cardinality(ByteValues(b))
             status ==
                 IF percentage_gt(nz, n, 30) /\ entropy_gt(u, 4) THEN "EXCELLENT"
                 ELSE IF percentage_gt(nz, n, 15) /\ entropy_gt(u, 2) THEN "GOOD"
                 ELSE IF percentage_gt(nz, n, 5) /\ entropy_gt(u, 1) THEN "FAIR"
                 ELSE "POOR"
         IN Result(status, TRUE, nz, n, u,
                   ScoreV(nz, n, u, ByteSum(b), ByteSquareSum(b)), "none")

\* analyze_capture_quality without its length guard
analyze_capture_quality_eh575_unguarded(b) ==
    IF BufLen(b) = 0
    THEN Raised("ZeroDivisionError")
    ELSE LET nz == NonZeroBytes(b)
             n == BufLen(b)
             u == Cardinality(ByteValues(b))
             status ==
                 IF percentage_gt(nz, n, 50) /\ entropy_gt(u, 3) THEN "EXCELLENT"
                 ELSE IF percentage_gt(nz, n, 20) /\ entropy_gt(u, 1) THEN "GOOD"
                 ELSE IF percentage_gt(nz, n, 5) THEN "FAIR"
                 ELSE "POOR"
         IN Result(status, TRUE, nz, n, u, ZeroScore, "none")

\* analyze_capture_quality adding up the non-zero bytes instead of counting
\* them
analyze_capture_quality_eh575_byte_sum(b) ==
    IF BufLen(b) = 0 \/ BufLen(b) < MinAnalysisLen
    THEN NoData
    ELSE LET nz == ByteSum(b)
             n == BufLen(b)
             u == Cardinality(ByteValues(b))
             status ==
                 IF percentage_gt(nz, n, 50) /\ entropy_gt(u, 3) THEN "EXCELLENT"
                 ELSE IF percentage_gt(nz, n, 20) /\ entropy_gt(u, 1) THEN "GOOD"
                 ELSE IF percentage_gt(nz, n, 5) THEN "FAIR"
                 ELSE "POOR"
         IN Result(status, TRUE, nz, n, u, ZeroScore, "none")

\* analyze_capture_quality with the two lowest tiers exchanged
analyze_capture_quality_eh575_fair_below_poor(b) ==
    IF BufLen(b) = 0 \/ BufLen(b) < MinAnalysisLen
    THEN NoData
    ELSE LET nz == NonZeroBytes(b)
             n == BufLen(b)
             u == Cardinality(ByteValues(b))
             status ==
                 IF percentage_gt(nz, n, 50) /\ entropy_gt(u, 3) THEN "EXCELLENT"
                 ELSE IF percentage_gt(nz, n, 20) /\ entropy_gt(u, 1) THEN "GOOD"
                 ELSE IF percentage_gt(nz, n, 5) THEN "POOR"
                 ELSE "FAIR"
         IN Result(status, TRUE, nz, n, u, ZeroScore, "none")

\* eh575_calibration_protocol.analyze_capture_quality
analyze_capture_quality_eh575(b) ==
    IF BufLen(b) = 0 \/ BufLen(b) < MinAnalysisLen
    THEN NoData
    ELSE LET nz == NonZeroBytes(b)
             n == BufLen(b)
             u == Cardinality(ByteValues(b))
             status ==
                 IF percentage_gt(nz, n, 50) /\ entropy_gt(u, 3) THEN "EXCELLENT"
                 ELSE IF percentage_gt(nz, n, 20) /\ entropy_gt(u, 1) THEN "GOOD"
                 ELSE IF percentage_gt(nz, n, 5) THEN "FAIR"
                 ELSE "POOR"
         IN Result(status, TRUE, nz, n, u, ZeroScore, "none")

\* the percentage computed inline by critical_test.test_command,
\* simple_test.test and MANUAL_TEST.test_cmd on the buffer dev.read returned:
\* (non_zero / len(resp)) * 100 with no guard on len(resp)
inline_percentage(b) ==
    IF BufLen(b) = 0
    THEN Raised("ZeroDivisionError")
    ELSE Result("pct", TRUE, NonZeroBytes(b), BufLen(b), 0, ZeroScore, "none")

\* critical_command_finder.test_cmd on the buffer dev.read returned: the
\* same division, inside the bare except that returns 0
test_cmd_percentage(b) ==
    IF BufLen(b) = 0
    THEN Result("Failed", TRUE, 0, 1, 0, ZeroScore, "none")
    ELSE Result("pct", TRUE, NonZeroBytes(b), BufLen(b), 0, ZeroScore, "none")

\* advanced_capture.try_image_commands_variations on the response of
\* send_and_receive: score = non_zero_bytes / len(response), computed only
\* `if response and len(response) > 100`
image_score(b) ==
    IF BufLen(b) > 100
    THEN Result("score", TRUE, NonZeroBytes(b), BufLen(b), 0, ZeroScore, "none")
    ELSE Result("skipped", FALSE, 0, 1, 0, ZeroScore, "none")

AcqVariants == {"analyze_capture_quality_adaptive", "analyze_capture_quality_eh575"}
Classifiers ==
    AcqVariants \cup {"test_command", "test_cmd", "try_image_commands_variations"}

Classify(v, b) ==
    CASE v = "analyze_capture_quality_adaptive" -> analyze_capture_quality_adaptive(b)
      [] v = "analyze_capture_quality_eh575" -> analyze_capture_quality_eh575(b)
      [] v = "test_command" -> inline_percentage(b)
      [] v = "test_cmd" -> test_cmd_percentage(b)
      [] v = "try_image_commands_variations" -> image_score(b)

\* segments the classified buffers are built from
SegReps == {1, 25, 50, 200}
Segs ==
    {Seg(lo, hi, rep) : lo \in {0, 1}, hi \in {0, 4, 30, 60, 120}, rep \in SegReps}
    \ {Seg(1, 0, rep) : rep \in SegReps}

RECURSIVE SeqsUpTo(_, _)
SeqsUpTo(S, n) ==
    IF n = 0 THEN {<<>>}
    ELSE LET shorter == SeqsUpTo(S, n - 1)
         IN shorter \cup {Append(q, x) : q \in shorter, x \in S}

ClassifyBuffers == SeqsUpTo(Segs, MaxSegs)

\* ------------------------------------------------------------- scripts
SendAndReceiveScripts ==
    {"adaptive_calibration", "eh575_calibration_protocol",
     "advanced_capture", "capture_fingerprint"}

Scripts ==
    SendAndReceiveScripts \cup
    {"simple_test", "MANUAL_TEST", "critical_test",
     "critical_command_finder", "enhanced_test", "polling",
     "test_device", "quick_test"}

\* the probe helper a script sends its command frames with
CommandHelper(s) ==
    CASE s \in SendAndReceiveScripts -> "send_and_receive"
      [] s = "critical_command_finder" -> "test_cmd"
      [] s = "simple_test" -> "test"
      [] s = "MANUAL_TEST" -> "manual_test_cmd"
      [] s = "critical_test" -> "test_command"
      [] s = "enhanced_test" -> "try_fingerprint_commands"
      [] s = "polling" -> "try_init_commands"
      [] s = "test_device" -> "test_egis_device"
      [] s = "quick_test" -> "quick_test"

\* command loops whose body talks to the device inline: nothing is returned
InlineHelpers == {"test_egis_device", "quick_test"}

\* scripts that go on to an endless monitoring loop after their commands
MonitorScripts == {"enhanced_test", "polling"}

\* the loop that polls the IN endpoints without sending anything
MonitorHelper(s) ==
    IF s = "polling" THEN "poll_loop" ELSE "continuous_monitor"

\* the IN endpoints a helper reads, in the order it reads them
Endpoints(h) ==
    CASE h \in {"try_fingerprint_commands", "try_init_commands", "continuous_monitor"} ->
             <<bulk_in>> \o intr_in
      [] h = "poll_loop" -> intr_in \o <<bulk_in>>
      [] OTHER -> <<bulk_in>>

AllEndpoints == {bulk_in} \cup {intr_in[k] : k \in 1..Len(intr_in)}

\* the read buffer sizes a script asks for
MaxLens(s) ==
    CASE s \in SendAndReceiveScripts -> {DefaultResponseSize, ImageResponseSize}
      [] s = "polling" -> {DefaultResponseSize, ImageResponseSize}
      [] s \in {"enhanced_test", "quick_test"} -> {DefaultResponseSize}
      [] s = "test_device" -> {DefaultResponseSize, ImageResponseSize}
      [] OTHER -> {ImageResponseSize}

\* what the helper does once dev.write has completed or raised
AfterWrite(h, w) ==
    CASE h = "send_and_receive" -> send_and_receive_write(w)
      [] h = "test_cmd" -> test_cmd_write(w)
      [] h = "test" -> test_write(w)
      [] h = "manual_test_cmd" -> manual_test_cmd_write(w)
      [] h = "test_command" -> test_command_write(w)
      [] h = "try_fingerprint_commands" -> send_command(w)
      [] h = "try_init_commands" -> try_init_commands_write(w)
      [] h = "test_egis_device" -> test_egis_device_write(w)
      [] h = "quick_test" -> quick_test_write(w)

\* what the helper does once dev.read has completed or raised
AfterRead(h, r) ==
    CASE h = "send_and_receive" -> send_and_receive_read(r)
      [] h = "test_cmd" -> test_cmd_read(r)
      [] h = "test" -> test_read(r)
      [] h = "manual_test_cmd" -> manual_test_cmd_read(r)
      [] h = "test_command" -> test_command_read(r)
      [] h \in {"try_fingerprint_commands", "continuous_monitor"} -> read_response(r)
      [] h = "try_init_commands" -> try_init_commands_read(r)
      [] h = "poll_loop" -> read_endpoint(r)
      [] h = "test_egis_device" -> test_egis_device_read(r)
      [] h = "quick_test" -> quick_test_read(r)

\* a read handed to a background thread: the caller goes on at once
blocked_in_background(op) == IF op = "write" THEN "writing" ELSE "returned"

\* the caller's position while a dev.write / dev.read call is in progress:
\* both are synchronous calls, the caller waits inside them
blocked_in(op) == IF op = "write" THEN "writing" ELSE "reading"

\* how a script ends when the device cannot be opened
connect_exit(s, outcome) ==
    CASE outcome = "not_found" /\ s \in {"simple_test", "MANUAL_TEST"} -> "AttributeError"
      [] outcome = "not_found" /\ s = "polling" -> "ValueError: Device not found"
      [] outcome = "not_found" -> "DeviceNotFound"
      [] outcome = "no_permission" /\ s \in SendAndReceiveScripts
                                          \cup {"enhanced_test", "polling", "test_device"} ->
             "PermissionError"
      [] outcome = "no_permission" /\ s \in {"critical_test", "quick_test"} -> "Error"
      [] outcome = "no_permission" -> "USBError"

\* whether release_interface runs when exception e leaves the script's
\* command or monitoring code
releases_on_exception(s, ph, e) ==
    CASE s \in SendAndReceiveScripts \cup {"enhanced_test", "test_device"} -> TRUE   \* try/finally
      [] s = "polling" -> ph = "monitor" /\ e = "KeyboardInterrupt"
      [] OTHER -> FALSE

\* how the script ends when exception e leaves its command or monitoring
\* code: critical_test and quick_test print "Error" from their except
\* Exception handler, the monitoring loops stop on Ctrl+C, anything else
\* ends the script with the exception
exit_kind(s, ph, e) ==
    CASE s \in {"critical_test", "quick_test"} /\ e # "KeyboardInterrupt" -> "Error"
      [] s \in MonitorScripts /\ ph = "monitor" /\ e = "KeyboardInterrupt" -> "stopped"
      [] OTHER -> e

\* ------------------------------------------------------------- state
VARIABLES
    script,          \* the script that runs
    pc,              \* where the script is
    phase,           \* "connect", "commands", "monitor", "done"
    i,               \* index of the command being sent (1-based)
    claimed,         \* the interface is claimed and not yet released
    released,        \* release_interface has been called
    exitKind,        \* how the script ended
    call,            \* the probe call in progress, or the last one
    inflight,        \* transport operations in progress on the device handle
    exc,             \* exception travelling up the stack
    returned,        \* (cause, value) pairs the helper returned for failures
    data_received,   \* polling's module-level flag
    sent,            \* indices of the commands handed to dev.write, in order
    cleanup,         \* cleanup calls the script has made, in order
    cbuf,            \* buffer handed to a classifier
    cvariant,        \* which classifier
    cresult,         \* what the classifier returned ("pending" before the call)
    cprev,           \* what the call before that one returned
    ccalls,          \* classifier calls made on the buffer so far
    routine,         \* the capture routine in progress
    rpc,             \* "run", "returned", or "raised" when an exception left it
    iter,            \* index of the routine's loop (i, attempt, candidate)
    cycle_count,     \* execute_repeat_cycle
    successful_captures, \* execute_repeat_cycle
    success_count,   \* test_egis_device
    captures,        \* try_continuous_scan_mode's list, kept as its length
    best_score,      \* run_adaptive_calibration; best_param_score
    best_variant,    \* run_adaptive_calibration; best_param
    response,        \* what the last probe call returned
    files,           \* capture files written, as (site, contents) pairs
    results,         \* analyze_captures.main's list of analyze_file results
    result,          \* what the routine returned
    exit_status,     \* status of sys.exit, -1 while the process runs
    observed         \* what the device did at each step, in order

sessionVars == <<script, pc, phase, i, claimed, released, exitKind, call,
                 inflight, exc, returned, data_received, sent, cleanup>>
classifyVars == <<cbuf, cvariant, cresult, cprev, ccalls>>
routineVars == <<routine, rpc, iter, cycle_count, successful_captures,
                 success_count, captures, best_score, best_variant, response,
                 files, results, result, exit_status, observed>>
vars == <<sessionVars, classifyVars, routineVars>>

NoCall ==
    [helper |-> "none", iscmd |-> FALSE, max_len |-> 0, wcount |-> 0,
     rcount |-> [e \in AllEndpoints |-> 0], w |-> "none", epi |-> 0,
     cause |-> "none", ret |-> NoneV, log |-> "", done |-> FALSE]

NewCall(h, cmd, n) ==
    [NoCall EXCEPT !.helper = h, !.iscmd = cmd, !.max_len = n]

FailureCauses == {"send_failed", "timeout", "read_error"}

\* a routine's return value: whether it returned, the boolean, the name
NoResult == [done |-> FALSE, value |-> FALSE, name |-> "None"]
Returned(v, n) == [done |-> TRUE, value |-> v, name |-> n]

\* nothing observed yet
NothingObserved == [seq |-> <<>>, good |-> 0, cycles |-> 0]

\* the locals of a routine at its first statement
RoutineLocals ==
    /\ rpc = "run"
    /\ iter = 0
    /\ cycle_count = 0
    /\ successful_captures = 0
    /\ success_count = 0
    /\ captures = 0
    /\ best_score = ZeroScore
    /\ best_variant = "None"
    /\ response = NoneV
    /\ files = {}
    /\ results = <<>>
    /\ result = NoResult
    /\ exit_status = -1
    /\ observed = NothingObserved

RoutineIdle ==
    /\ routine = "none"
    /\ RoutineLocals

\* ------------------------------------------------------- session actions
ClassifyIdle ==
    /\ cbuf = <<>>
    /\ cvariant = "none"
    /\ cresult = PendingResult
    /\ cprev = PendingResult
    /\ ccalls = 0

Init ==
    /\ script \in Scripts
    /\ pc = "start"
    /\ phase = "connect"
    /\ i = 1
    /\ claimed = FALSE
    /\ released = FALSE
    /\ exitKind = "running"
    /\ call = NoCall
    /\ inflight = {}
    /\ exc = "none"
    /\ returned = {}
    /\ data_received = FALSE
    /\ sent = <<>>
    /\ cleanup = <<>>
    /\ ClassifyIdle
    /\ RoutineIdle

\* a script start that goes on to its commands without claim_interface
Connect_without_claim(outcome) ==
    /\ pc = "start"
    /\ IF outcome = "ok"
       THEN /\ claimed' = FALSE
            /\ pc' = "idle"
            /\ phase' = "commands"
            /\ exitKind' = exitKind
       ELSE /\ claimed' = FALSE
            /\ pc' = "exited"
            /\ phase' = "done"
            /\ exitKind' = connect_exit(script, outcome)
    /\ UNCHANGED <<script, i, released, call, inflight, exc, returned,
                   data_received, sent, cleanup, classifyVars, routineVars>>

\* usb.core.find, get_active_configuration, detach_kernel_driver,
\* claim_interface at the top of every script
Connect(outcome) ==
    /\ pc = "start"
    /\ IF outcome = "ok"
       THEN /\ claimed' = TRUE
            /\ pc' = "idle"
            /\ phase' = "commands"
            /\ exitKind' = exitKind
       ELSE /\ claimed' = FALSE
            /\ pc' = "exited"
            /\ phase' = "done"
            /\ exitKind' = connect_exit(script, outcome)
    /\ UNCHANGED <<script, i, released, call, inflight, exc, returned,
                   data_received, sent, cleanup, classifyVars, routineVars>>

\* the script calls its helper with the next command frame of its list
CallProbe(n) ==
    /\ pc = "idle"
    /\ phase = "commands"
    /\ i <= MaxCmds
    /\ n \in MaxLens(script)
    /\ call' = NewCall(CommandHelper(script), TRUE, n)
    /\ pc' = "call"
    /\ UNCHANGED <<script, phase, i, claimed, released, exitKind, inflight,
                   exc, returned, data_received, sent, cleanup, classifyVars, routineVars>>

\* one iteration of the monitoring loop: reads only
CallMonitor ==
    /\ pc = "idle"
    /\ phase = "monitor"
    /\ call' = [NewCall(MonitorHelper(script), FALSE, DefaultResponseSize)
                   EXCEPT !.epi = 1]
    /\ pc' = "toread"
    /\ UNCHANGED <<script, phase, i, claimed, released, exitKind, inflight,
                   exc, returned, data_received, sent, cleanup, classifyVars, routineVars>>

\* dev.write(0x01, cmd) is entered
WriteBegin ==
    /\ pc = "call"
    /\ inflight' = inflight \cup {[op |-> "write", ep |-> bulk_out, cmd |-> i]}
    /\ call' = [call EXCEPT !.wcount = @ + 1]
    /\ sent' = Append(sent, i)
    /\ pc' = blocked_in("write")
    /\ UNCHANGED <<script, phase, i, claimed, released, exitKind, exc,
                   returned, data_received, cleanup, classifyVars, routineVars>>

\* the effect of a helper's step on the script's position and on the call
TakeStep(st, afterRead, w) ==
    /\ call' = [call EXCEPT
                  !.w = IF afterRead THEN @ ELSE w,
                  !.cause = st.cause, !.ret = st.ret, !.log = st.log,
                  !.epi = CASE st.next = "read" /\ ~afterRead -> 1
                            [] st.next = "nextep" /\ @ < Len(Endpoints(call.helper)) -> @ + 1
                            [] OTHER -> @,
                  !.done = \/ st.next \in {"return", "raise"}
                           \/ st.next = "nextep" /\ call.epi >= Len(Endpoints(call.helper))]
    /\ pc' = CASE st.next = "write" -> "call"
               [] st.next = "read" -> "toread"
               [] st.next = "nextep" ->
                      IF call.epi < Len(Endpoints(call.helper)) THEN "toread" ELSE "returned"
               [] st.next = "return" -> "returned"
               [] st.next = "raise" -> "raising"
    /\ exc' = IF st.next = "raise" THEN st.exc ELSE exc
    /\ returned' = IF /\ st.next \in {"return", "nextep"}
                      /\ st.cause \in FailureCauses
                      /\ call.helper \notin InlineHelpers
                   THEN returned \cup {[cause |-> st.cause, ret |-> st.ret]}
                   ELSE returned

\* dev.write returns or raises
WriteEnd(w) ==
    /\ pc = "writing"
    /\ \E o \in inflight : o.op = "write"
    /\ inflight' = {o \in inflight : o.op # "write"}
    /\ TakeStep(AfterWrite(call.helper, w), FALSE, w)
    /\ UNCHANGED <<script, phase, i, claimed, released, exitKind,
                   data_received, sent, cleanup, classifyVars, routineVars>>

\* dev.read(ep, max_len, timeout) is entered
ReadBegin ==
    /\ pc = "toread"
    /\ LET ep == Endpoints(call.helper)[call.epi] IN
       /\ inflight' = inflight \cup {[op |-> "read", ep |-> ep, cmd |-> i]}
       /\ call' = [call EXCEPT !.rcount[ep] = @ + 1]
    /\ pc' = blocked_in("read")
    /\ UNCHANGED <<script, phase, i, claimed, released, exitKind, exc,
                   returned, data_received, sent, cleanup, classifyVars, routineVars>>

\* dev.read returns a buffer or raises
ReadEnd(r) ==
    /\ pc = "reading"
    /\ \E o \in inflight : o.op = "read"
    /\ r \in ReadOutcomes(call.max_len)
    /\ inflight' = {o \in inflight : o.op # "read"}
    /\ TakeStep(AfterRead(call.helper, r), TRUE, call.w)
    /\ data_received' = (data_received \/
                           (call.helper \in {"try_init_commands", "poll_loop"}
                              /\ r.kind = "data"))
    /\ UNCHANGED <<script, phase, i, claimed, released, exitKind, sent, cleanup, classifyVars, routineVars>>

\* the helper has returned: the script goes on to its next command, or to
\* its monitoring loop when the list is exhausted
Continue ==
    /\ pc = "returned"
    /\ pc' = "idle"
    /\ IF phase = "commands"
       THEN /\ i' = i + 1
            /\ phase' = IF i + 1 > MaxCmds /\ script \in MonitorScripts
                        THEN "monitor" ELSE phase
       ELSE UNCHANGED <<i, phase>>
    /\ UNCHANGED <<script, claimed, released, exitKind, call, inflight, exc,
                   returned, data_received, sent, cleanup, classifyVars, routineVars>>

\* dev.attach_kernel_driver in the cleanup: succeeds or raises
AttachOutcomes == {"ok", "error"}

\* scripts whose cleanup tries to give the interface back to the kernel
\* driver, inside try/except: pass
ReattachScripts ==
    SendAndReceiveScripts \cup {"enhanced_test", "polling", "test_device", "quick_test"}

\* a cleanup that reattaches the kernel driver before it releases
cleanup_steps_attach_first(s, a) ==
    IF s \in ReattachScripts
    THEN <<(IF a = "ok" THEN "attach_kernel_driver" ELSE "attach_kernel_driver: error ignored"),
           "release_interface">>
    ELSE <<"release_interface">>

\* the calls of a script's cleanup, in order: release_interface, then the
\* reattach whose exception (if any) is swallowed
cleanup_steps(s, a) ==
    IF s \in ReattachScripts
    THEN <<"release_interface",
           (IF a = "ok" THEN "attach_kernel_driver" ELSE "attach_kernel_driver: error ignored")>>
    ELSE <<"release_interface">>

\* the last command is done: usb.util.release_interface at the end of the
\* script (or in main's finally) and normal exit
Finish(a) ==
    /\ pc = "idle"
    /\ phase = "commands"
    /\ i > MaxCmds
    /\ script \notin MonitorScripts
    /\ released' = TRUE
    /\ claimed' = FALSE
    /\ cleanup' = cleanup \o cleanup_steps(script, a)
    /\ pc' = "exited"
    /\ phase' = "done"
    /\ exitKind' = "normal"
    /\ UNCHANGED <<script, i, call, inflight, exc, returned, data_received,
                   sent, classifyVars, routineVars>>

\* Ctrl+C while the script sleeps or prints between two helper calls
Interrupt ==
    /\ pc = "idle"
    /\ phase \in {"commands", "monitor"}
    /\ exc' = "KeyboardInterrupt"
    /\ pc' = "raising"
    /\ UNCHANGED <<script, phase, i, claimed, released, exitKind, call,
                   inflight, returned, data_received, sent, cleanup, classifyVars, routineVars>>

\* an exception leaves the helper: the script's try/except/finally (if any)
\* decides whether release_interface still runs
Propagate(a) ==
    /\ pc = "raising"
    /\ IF releases_on_exception(script, phase, exc)
       THEN /\ released' = TRUE
            /\ claimed' = FALSE
            /\ cleanup' = cleanup \o cleanup_steps(script, a)
       ELSE UNCHANGED <<released, claimed, cleanup>>
    /\ pc' = "exited"
    /\ phase' = "done"
    /\ exitKind' = exit_kind(script, phase, exc)
    /\ UNCHANGED <<script, i, call, inflight, exc, returned, data_received,
                   sent, classifyVars, routineVars>>

Next ==
    \/ \E o \in {"ok", "not_found", "no_permission"} : Connect(o)
    \/ \E n \in {DefaultResponseSize, ImageResponseSize} : CallProbe(n)
    \/ CallMonitor
    \/ WriteBegin
    \/ \E w \in WriteOutcomes : WriteEnd(w)
    \/ ReadBegin
    \/ \E r \in ReadOutcomes(ImageResponseSize) : ReadEnd(r)
    \/ Continue
    \/ \E a \in AttachOutcomes : Finish(a)
    \/ Interrupt
    \/ \E a \in AttachOutcomes : Propagate(a)

Spec == Init /\ [][Next]_vars

\* ---------------------------------------------------- classification run
SessionIdle ==
    /\ script = "none"
    /\ pc = "classify"
    /\ phase = "done"
    /\ i = 1
    /\ claimed = FALSE
    /\ released = FALSE
    /\ exitKind = "running"
    /\ call = NoCall
    /\ inflight = {}
    /\ exc = "none"
    /\ returned = {}
    /\ data_received = FALSE
    /\ sent = <<>>
    /\ cleanup = <<>>

\* a classifier is about to be called on a buffer
InitClassify ==
    /\ SessionIdle
    /\ cbuf \in ClassifyBuffers
    /\ cvariant \in Classifiers
    /\ cresult = PendingResult
    /\ cprev = PendingResult
    /\ ccalls = 0
    /\ RoutineIdle

\* a classifier that keeps the non-zero count in a module-level total and
\* reports the total
classify_call_accumulating(v, b) ==
    LET r == Classify(v, b) IN
    IF r.has_pct /\ cresult.has_pct
    THEN [r EXCEPT !.nz = @ + cresult.nz, !.total = @ + cresult.total]
    ELSE r

\* one call of a classifier: its result depends on the buffer only
classify_call(v, b) == Classify(v, b)

\* the call, and the same call made again on the same buffer
DoClassify ==
    /\ pc = "classify"
    /\ ccalls < MaxClassifyCalls
    /\ cprev' = cresult
    /\ cresult' = classify_call(cvariant, cbuf)
    /\ ccalls' = ccalls + 1
    /\ UNCHANGED <<cbuf, cvariant, sessionVars, routineVars>>

NextClassify == DoClassify

SpecClassify == InitClassify /\ [][NextClassify]_vars

\* ------------------------------------------------------ capture routines
\* responses of the device to the capture command of each routine, chosen
\* on both sides of the routine's tests, and to the short setup commands
AdaptiveBuffers ==
    { <<>>, <<Seg(0, 0, 100)>>, <<Seg(1, 4, 25)>>,
      <<Seg(0, 0, 100), Seg(0, 30, 1)>>, <<Seg(0, 120, 1)>>, <<Seg(0, 120, 2)>> }
RepeatBuffers ==
    { <<>>, <<Seg(1, 7, 1)>>, <<Seg(0, 0, 100)>>, <<Seg(1, 4, 25)>>,
      <<Seg(0, 0, 100), Seg(0, 30, 1)>>, <<Seg(0, 120, 1)>> }
RapidBuffers ==
    { <<>>, <<Seg(1, 4, 25)>>, <<Seg(0, 0, 200), Seg(1, 4, 1)>>, <<Seg(0, 120, 1)>> }
FingerprintBuffers ==
    { <<>>, <<Seg(1, 4, 25)>>, <<Seg(0, 0, 200), Seg(1, 4, 1)>>, <<Seg(0, 120, 2)>> }
CandidateBuffers ==
    { <<>>, <<Seg(0, 0, 100)>>, <<Seg(0, 0, 200), Seg(1, 4, 1)>> }
DeviceBuffers ==
    { <<>>, <<Seg(1, 7, 1)>>, <<Seg(0, 120, 1)>> }
FileBuffers ==
    { <<>>, <<Seg(1, 7, 1)>>, <<Seg(0, 0, 100)>>, <<Seg(0, 120, 1)>> }

\* dev.read(0x82, max_len, timeout) of a routine's probe
CaptureReads(buffers, max_len) ==
    {[kind |-> "data", buf |-> b] : b \in {x \in buffers : BufLen(x) <= max_len}}
    \cup {[kind |-> k, buf |-> NoBuf] : k \in {"timeout", "error", "exception", "interrupt"}}

\* one probe of a routine: the commands before it (pre), its dev.write (w)
\* and its dev.read (r), which takes place only after a write that succeeded
ProbeOutcomes(buffers, max_len) ==
    {[pre |-> "done", w |-> "ok", r |-> r] : r \in CaptureReads(buffers, max_len)}
    \cup {[pre |-> "done", w |-> w, r |-> [kind |-> "timeout", buf |-> NoBuf]] :
              w \in {"error", "interrupt"}}
    \cup {[pre |-> "interrupt", w |-> "ok", r |-> [kind |-> "timeout", buf |-> NoBuf]]}

\* the commands before a capture, whose responses are dropped: all of them
\* returned, or Ctrl+C arrived during one of them or during a sleep
PreOutcomes == {"done", "interrupt"}

\* one call of send_and_receive: dev.write, then dev.read unless the write
\* failed
send_and_receive(w, r) ==
    LET s == send_and_receive_write(w)
    IN IF s.next = "read" THEN send_and_receive_read(r) ELSE s

\* `if response:` on what send_and_receive returned
truthy(v) == v.kind = "buf" /\ BufLen(v.buf) > 0

\* a file written by open(filename, 'wb').write(response)
File(site, b) == [site |-> site, buf |-> b]

\* ---- adaptive_calibration.run_adaptive_calibration
VariantNames ==
    <<"EH576 Original", "EH575 Minimal", "Hybrid EH575/576", "Timing Sensitive">>

\* test_calibration_variant saving every response it got
test_calibration_variant_saving_all(name, v) ==
    IF truthy(v)
    THEN [score |-> analyze_capture_quality_adaptive(v.buf).score, data |-> v,
          files |-> {File(name, v.buf)}]
    ELSE [score |-> ZeroScore, data |-> NoneV, files |-> {}]

\* test_calibration_variant from its capture command on: (score, response)
\* and the file it saved
test_calibration_variant(name, v) ==
    IF truthy(v)
    THEN LET score == analyze_capture_quality_adaptive(v.buf).score
         IN [score |-> score, data |-> v,
             files |-> IF score_gt_const(score, 10) THEN {File(name, v.buf)} ELSE {}]
    ELSE [score |-> ZeroScore, data |-> NoneV, files |-> {}]

\* the fourth variant, written out in run_adaptive_calibration: no score4
\* exists when the capture returned nothing, and nothing is compared
timing_sensitive(name, v) ==
    IF truthy(v)
    THEN LET score4 == analyze_capture_quality_adaptive(v.buf).score
         IN [score |-> score4, data |-> v,
             files |-> IF score_gt_const(score4, 10) THEN {File(name, v.buf)} ELSE {}]
    ELSE [score |-> ZeroScore, data |-> NoneV, files |-> {}]

\* the comparison written as >=
improves_or_ties(score, best) == ~score_gt(best, score)

\* `if score1 > best_score:`
improves(score, best) == score_gt(score, best)

\* the report at the end of run_adaptive_calibration
calibration_report(best) ==
    IF score_gt_const(best, 20) THEN TRUE
    ELSE IF score_gt_const(best, 10) THEN TRUE
    ELSE FALSE

RunAdaptiveCalibration(pre, w, r) ==
    /\ routine = "run_adaptive_calibration"
    /\ rpc = "run"
    /\ LET name == VariantNames[iter + 1]
           st == send_and_receive(w, r)
       IN IF pre = "interrupt" \/ st.next = "raise"
          THEN /\ rpc' = "raised"
               /\ UNCHANGED <<iter, best_score, best_variant, response, files,
                              result, observed>>
          ELSE LET out == IF iter < 3 THEN test_calibration_variant(name, st.ret)
                          ELSE timing_sensitive(name, st.ret)
                   better == improves(out.score, best_score)
               IN /\ response' = st.ret
                  /\ files' = files \cup out.files
                  /\ best_score' = IF better THEN out.score ELSE best_score
                  /\ best_variant' = IF better THEN name ELSE best_variant
                  /\ observed' =
                         [observed EXCEPT !.seq =
                             Append(@, [name |-> name,
                                        responded |-> w = "ok" /\ r.kind = "data",
                                        buf |-> r.buf])]
                  /\ iter' = iter + 1
                  /\ IF iter = 3
                     THEN /\ rpc' = "returned"
                          /\ result' = Returned(calibration_report(best_score'),
                                                best_variant')
                     ELSE UNCHANGED <<rpc, result>>
    /\ UNCHANGED <<routine, cycle_count, successful_captures, success_count,
                   captures, results, exit_status, sessionVars, classifyVars>>

\* ---- adaptive_calibration.test_parameter_variations
ParamNames ==
    <<"Original (0xec)", "Variant fc", "Variant 00", "Background style",
      "Different param">>

TestParameterVariations(pre, w, r) ==
    /\ routine = "test_parameter_variations"
    /\ rpc = "run"
    /\ LET name == ParamNames[iter + 1]
           st == send_and_receive(w, r)
       IN IF (iter = 0 /\ pre = "interrupt") \/ st.next = "raise"
          THEN /\ rpc' = "raised"
               /\ UNCHANGED <<iter, best_score, best_variant, response, files,
                              result>>
          ELSE LET score == IF truthy(st.ret)
                            THEN analyze_capture_quality_adaptive(st.ret.buf).score
                            ELSE ZeroScore
                   better == truthy(st.ret) /\ score_gt(score, best_score)
               IN /\ response' = st.ret
                  /\ files' = files \cup
                         (IF better THEN {File("param_test", st.ret.buf)} ELSE {})
                  /\ best_score' = IF better THEN score ELSE best_score
                  /\ best_variant' = IF better THEN name ELSE best_variant
                  /\ iter' = iter + 1
                  /\ IF iter = 4
                     THEN /\ rpc' = "returned"
                          /\ result' = Returned(score_gt_const(best_score', 15),
                                                best_variant')
                     ELSE UNCHANGED <<rpc, result>>
    /\ UNCHANGED <<routine, cycle_count, successful_captures, success_count,
                   captures, results, exit_status, observed, sessionVars,
                   classifyVars>>

\* ---- eh575_calibration_protocol.execute_repeat_cycle
\* expected_size of the nine repeat_packets
RepeatSizes == <<7, 7, 7, 9, 7, 10, 9, 7, 5356>>

\* `while cycle_count < 10:`
repeat_cycle_limit == 10

\* a FAIR capture counted with the successful ones
repeat_rating_counting_fair(quality) ==
    IF quality = "EXCELLENT" \/ quality = "GOOD" \/ quality = "FAIR" THEN "success"
    ELSE "none"

\* the branch taken on the quality string of the final capture
repeat_rating(quality) ==
    IF quality = "EXCELLENT" \/ quality = "GOOD" THEN "success"
    ELSE IF quality = "FAIR" THEN "fair"
    ELSE "none"

ExecuteRepeatCycle(w, r) ==
    /\ routine = "execute_repeat_cycle"
    /\ rpc = "run"
    /\ LET cc == IF iter = 0 THEN cycle_count + 1 ELSE cycle_count
           st == send_and_receive(w, r)
       IN /\ cycle_count' = cc
          /\ IF st.next = "raise"
             THEN \* except KeyboardInterrupt
                  /\ rpc' = "returned"
                  /\ result' = Returned(successful_captures > 0, "None")
                  /\ UNCHANGED <<iter, successful_captures, response, files,
                                 observed>>
             ELSE LET rating ==
                          IF iter = 8 /\ truthy(st.ret)
                          THEN repeat_rating(
                                   analyze_capture_quality_eh575(st.ret.buf).status)
                          ELSE "none"
                      sc == successful_captures + (IF rating = "success" THEN 1 ELSE 0)
                  IN /\ response' = st.ret
                     /\ successful_captures' = sc
                     /\ files' = files \cup
                            (CASE rating = "success" ->
                                      {File("fingerprint_cycle", st.ret.buf)}
                               [] rating = "fair" ->
                                      {File("fingerprint_fair", st.ret.buf)}
                               [] OTHER -> {})
                     /\ observed' =
                            IF iter = 8
                            THEN [observed EXCEPT
                                     !.cycles = @ + 1,
                                     !.good = @ +
                                         (IF /\ w = "ok"
                                             /\ r.kind = "data"
                                             /\ BufLen(r.buf) >= MinAnalysisLen
                                             /\ analyze_capture_quality_eh575(r.buf).status
                                                    \in {"GOOD", "EXCELLENT"}
                                          THEN 1 ELSE 0)]
                            ELSE observed
                     /\ IF iter = 8
                        THEN /\ iter' = 0
                             /\ IF cc < repeat_cycle_limit
                                THEN UNCHANGED <<rpc, result>>
                                ELSE /\ rpc' = "returned"
                                     /\ result' = Returned(sc > 0, "None")
                        ELSE /\ iter' = iter + 1
                             /\ UNCHANGED <<rpc, result>>
    /\ UNCHANGED <<routine, success_count, captures, best_score, best_variant,
                   results, exit_status, sessionVars, classifyVars>>

\* ---- advanced_capture.try_continuous_scan_mode
\* `if response and len(response) > 100:` then `if score > 0.05:` with
\* score = non_zero_bytes / len(response)
rapid_capture_gate(v) ==
    /\ truthy(v)
    /\ BufLen(v.buf) > 100
    /\ 100 * NonZeroBytes(v.buf) > 5 * BufLen(v.buf)

TryContinuousScanMode(pre, w, r) ==
    /\ routine = "try_continuous_scan_mode"
    /\ rpc = "run"
    /\ LET st == send_and_receive(w, r)
       IN IF iter = 0 /\ pre = "interrupt"
          THEN \* during the scan setup, outside the try
               /\ rpc' = "raised"
               /\ UNCHANGED <<iter, captures, response, files, result>>
          ELSE IF st.next = "raise"
          THEN \* except KeyboardInterrupt: return captures
               /\ rpc' = "returned"
               /\ result' = Returned(captures > 0, "captures")
               /\ UNCHANGED <<iter, captures, response, files>>
          ELSE /\ response' = st.ret
               /\ IF rapid_capture_gate(st.ret)
                  THEN /\ files' = files \cup {File("rapid_capture", st.ret.buf)}
                       /\ captures' = captures + 1
                  ELSE UNCHANGED <<files, captures>>
               /\ iter' = iter + 1
               /\ IF iter = 19
                  THEN /\ rpc' = "returned"
                       /\ result' = Returned(captures' > 0, "captures")
                  ELSE UNCHANGED <<rpc, result>>
    /\ UNCHANGED <<routine, cycle_count, successful_captures, success_count,
                   best_score, best_variant, results, exit_status, observed,
                   sessionVars, classifyVars>>

\* ---- capture_fingerprint.capture_fingerprint_sequence
\* the three capture attempts: `if response and len(response) > 100:`
capture_attempt_gate(v) == truthy(v) /\ BufLen(v.buf) > 100

\* the ten monitoring captures: also non_zero_bytes > len(response) * 0.2
monitor_gate(v) ==
    /\ truthy(v)
    /\ BufLen(v.buf) > 100
    /\ 10 * NonZeroBytes(v.buf) > 2 * BufLen(v.buf)

CaptureFingerprintSequence(pre, w, r) ==
    /\ routine = "capture_fingerprint_sequence"
    /\ rpc = "run"
    /\ LET st == send_and_receive(w, r)
       IN IF (iter = 0 /\ pre = "interrupt") \/ (iter < 3 /\ st.next = "raise")
          THEN \* initialisation and capture attempts are outside the try
               /\ rpc' = "raised"
               /\ UNCHANGED <<iter, response, files, result>>
          ELSE IF st.next = "raise"
          THEN \* except KeyboardInterrupt in the monitoring loop
               /\ rpc' = "returned"
               /\ result' = Returned(FALSE, "None")
               /\ UNCHANGED <<iter, response, files>>
          ELSE /\ response' = st.ret
               /\ files' = files \cup
                      (IF iter < 3 /\ capture_attempt_gate(st.ret)
                       THEN {File("fingerprint_capture", st.ret.buf)}
                       ELSE IF iter >= 3 /\ monitor_gate(st.ret)
                       THEN {File("fingerprint_monitor", st.ret.buf)}
                       ELSE {})
               /\ iter' = iter + 1
               /\ IF iter = 12
                  THEN /\ rpc' = "returned"
                       /\ result' = Returned(FALSE, "None")
                  ELSE UNCHANGED <<rpc, result>>
    /\ UNCHANGED <<routine, cycle_count, successful_captures, success_count,
                   captures, best_score, best_variant, results, exit_status,
                   observed, sessionVars, classifyVars>>

\* ---- critical_command_finder, the search over critical_candidates
critical_candidates ==
    <<"EH575 Init 1", "EH575 Init 2", "EH575 Sensor Setup", "EH575 Config 1",
      "EH575 Config 2", "EH575 Final Cal">>

\* one call of test_cmd: dev.write, dev.read, the percentage, or 0 from the
\* bare except
test_cmd(w, r) ==
    LET s == test_cmd_write(w)
    IN IF s.next = "read" THEN test_cmd_read(r) ELSE s

\* a search that never breaks out of the loop
search_never_stops(bg_test) == FALSE

\* `if bg_test > 1.0:` with bg_test = (non_zero / len(resp)) * 100
search_stops(bg_test) == 100 * bg_test.num > bg_test.den

CandidateSearch(w, r) ==
    /\ routine = "critical_candidates"
    /\ rpc = "run"
    /\ LET c == (iter \div 3) + 1
           part == iter % 3
           desc == CASE part = 0 -> "Reset"
                     [] part = 1 -> critical_candidates[c]
                     [] part = 2 -> "BG Test"
           st == test_cmd(w, r)
       IN /\ response' = st.ret
          /\ observed' =
                 [observed EXCEPT !.seq =
                     Append(@, [write |-> desc,
                                above |-> /\ part = 2
                                          /\ w = "ok"
                                          /\ r.kind = "data"
                                          /\ 100 * NonZeroBytes(r.buf) > BufLen(r.buf)])]
          /\ IF part = 2 /\ search_stops(st.ret)
             THEN \* break
                  /\ rpc' = "returned"
                  /\ result' = Returned(TRUE, critical_candidates[c])
                  /\ iter' = iter
             ELSE IF iter = 17
             THEN /\ rpc' = "returned"
                  /\ result' = Returned(FALSE, "None")
                  /\ iter' = iter
             ELSE /\ iter' = iter + 1
                  /\ UNCHANGED <<rpc, result>>
    /\ UNCHANGED <<routine, cycle_count, successful_captures, success_count,
                   captures, best_score, best_variant, files, results,
                   exit_status, sessionVars, classifyVars>>

\* ---- test_device.test_egis_device, from `success_count = 0` on
test_commands == <<"POST_INIT_1", "POST_INIT_2", "PRE_INIT_1", "PRE_INIT_2", "IMAGE_CMD">>

\* a loop body that adds one for every command that did not raise
got_response_or_not(st) == st.next = "return"

\* `success_count += 1` is reached: dev.read returned
got_response(st) == st.next = "return" /\ st.ret.kind = "buf"

TestEgisDevice(w, r) ==
    /\ routine = "test_egis_device"
    /\ rpc = "run"
    /\ LET name == test_commands[iter + 1]
           ws == test_egis_device_write(w)
           st == IF ws.next = "read" THEN test_egis_device_read(r) ELSE ws
       IN /\ (r.kind = "data" =>
                  BufLen(r.buf) <= (IF name = "IMAGE_CMD" THEN ImageResponseSize
                                    ELSE DefaultResponseSize))
          /\ observed' =
                 [observed EXCEPT !.seq =
                     Append(@, IF w # "ok" THEN "not sent"
                               ELSE IF r.kind = "data" THEN "buffer"
                               ELSE r.kind)]
          /\ IF st.next = "raise"
             THEN \* through the finally, to __main__'s except: sys.exit(1)
                  /\ rpc' = "raised"
                  /\ exit_status' = 1
                  /\ UNCHANGED <<iter, success_count, response, files, result>>
             ELSE /\ response' = st.ret
                  /\ success_count' = success_count + (IF got_response(st) THEN 1 ELSE 0)
                  /\ files' = files \cup
                         (IF got_response(st) THEN {File("response", st.ret.buf)} ELSE {})
                  /\ iter' = iter + 1
                  /\ IF iter = 4
                     THEN /\ rpc' = "returned"
                          /\ result' = Returned(success_count' > 0, "None")
                          /\ exit_status' = IF success_count' > 0 THEN 0 ELSE 1
                     ELSE UNCHANGED <<rpc, result, exit_status>>
    /\ UNCHANGED <<routine, cycle_count, successful_captures, captures,
                   best_score, best_variant, results, sessionVars, classifyVars>>

\* ---- analyze_captures
\* files main finds on disk: one that cannot be read, or its contents
CaptureFiles ==
    {[readable |-> FALSE, data |-> <<>>]}
    \cup {[readable |-> TRUE, data |-> b] : b \in FileBuffers}

\* what analyze_file returns: a (size, non_zero_bytes, entropy) tuple or None
Triple(size, non_zero_bytes, entropy) ==
    [kind |-> "tuple", size |-> size, non_zero_bytes |-> non_zero_bytes,
     entropy |-> entropy]
NoneTriple == [kind |-> "None", size |-> 0, non_zero_bytes |-> 0, entropy |-> 0]

\* analyze_file: open() failing lands in `except Exception: return 0, 0, 0`;
\* an empty file leaves by the bare `return`; for any other file the entropy
\* loop calls p.bit_length() on the float p = count / size, which raises
\* AttributeError for the first byte value present, and the same except
\* clause returns 0, 0, 0
analyze_file(f) ==
    IF ~f.readable THEN Triple(0, 0, 0)
    ELSE IF BufLen(f.data) = 0 THEN NoneTriple
    ELSE LET byte_values == ByteValues(f.data)
         IN IF byte_values # {} THEN Triple(0, 0, 0)
            ELSE Triple(BufLen(f.data), NonZeroBytes(f.data), 0)

\* main's loop over response_files: one more file analysed
AnalyzeMainFile(f) ==
    /\ routine = "analyze_captures_main"
    /\ rpc = "run"
    /\ Len(results) < MaxFiles
    /\ results' = Append(results, analyze_file(f))
    /\ UNCHANGED <<routine, rpc, iter, cycle_count, successful_captures,
                   success_count, captures, best_score, best_variant, response,
                   files, result, exit_status, observed, sessionVars,
                   classifyVars>>

\* main after the loop: the summary indexes r[0] and r[1] of every result;
\* with no file found main returns before it
AnalyzeMainSummary ==
    /\ routine = "analyze_captures_main"
    /\ rpc = "run"
    /\ IF \E k \in 1..Len(results) : results[k].kind = "None"
       THEN \* TypeError: 'NoneType' object is not subscriptable
            /\ rpc' = "raised"
            /\ exit_status' = 1
            /\ UNCHANGED result
       ELSE /\ rpc' = "returned"
            /\ exit_status' = 0
            /\ result' = Returned(FALSE, "None")
    /\ UNCHANGED <<routine, iter, cycle_count, successful_captures,
                   success_count, captures, best_score, best_variant, response,
                   files, results, observed, sessionVars, classifyVars>>

Routines ==
    {"run_adaptive_calibration", "test_parameter_variations",
     "execute_repeat_cycle", "try_continuous_scan_mode",
     "capture_fingerprint_sequence", "critical_candidates", "test_egis_device",
     "analyze_captures_main"}

\* a routine has been called on a claimed device
InitRoutines ==
    /\ SessionIdle
    /\ ClassifyIdle
    /\ routine \in Routines
    /\ RoutineLocals

\* one more command of execute_repeat_cycle, answered with at most the
\* expected_size the routine asks for
NextRepeatCycle ==
    \E o \in ProbeOutcomes(RepeatBuffers,
                           IF routine = "execute_repeat_cycle"
                           THEN RepeatSizes[iter + 1] ELSE 0) :
        o.pre = "done" /\ ExecuteRepeatCycle(o.w, o.r)

NextRoutines ==
    \/ \E o \in ProbeOutcomes(AdaptiveBuffers, ImageResponseSize) :
           \/ RunAdaptiveCalibration(o.pre, o.w, o.r)
           \/ TestParameterVariations(o.pre, o.w, o.r)
    \/ \E o \in ProbeOutcomes(RapidBuffers, ImageResponseSize) :
           TryContinuousScanMode(o.pre, o.w, o.r)
    \/ \E o \in ProbeOutcomes(FingerprintBuffers, ImageResponseSize) :
           CaptureFingerprintSequence(o.pre, o.w, o.r)
    \/ NextRepeatCycle
    \/ \E o \in ProbeOutcomes(CandidateBuffers, ImageResponseSize) :
           o.pre = "done" /\ CandidateSearch(o.w, o.r)
    \/ \E o \in ProbeOutcomes(DeviceBuffers, ImageResponseSize) :
           o.pre = "done" /\ TestEgisDevice(o.w, o.r)
    \/ \E f \in CaptureFiles : AnalyzeMainFile(f)
    \/ AnalyzeMainSummary

SpecRoutines == InitRoutines /\ [][NextRoutines]_vars

\* execute_repeat_cycle alone; every dev.write and dev.read has a timeout
\* and every sleep ends, so a routine that can take a step takes one
InitRepeatCycle ==
    /\ InitRoutines
    /\ routine = "execute_repeat_cycle"

SpecRepeatCycle ==
    InitRepeatCycle /\ [][NextRepeatCycle]_vars /\ WF_vars(NextRepeatCycle)

\* ================================================================ claims
\* messages (or the exception) by which a helper reports that it failed
FailureReports ==
    {"Send error", "Failed", "Failed to send command", "EgisTec command failed"}

ReadsAttempted == {e \in AllEndpoints : call.rcount[e] > 0}

\* C1: when dev.write fails in a command probe, the helper reports the
\* failure (a failure message, or the USBError itself travelling up) and
\* attempts no read on any IN endpoint for that command.
C1_SendFailureNoRead ==
    (call.iscmd /\ call.w = "error") =>
        /\ ReadsAttempted = {}
        /\ pc \notin {"toread", "reading"}
        /\ call.cause = "send_failed"
        /\ (call.log \in FailureReports \/ exc = "USBError")

\* a send_and_receive call whose write failed has returned to its caller
C1_Witness ==
    /\ call.helper = "send_and_receive"
    /\ call.w = "error"
    /\ call.done
    /\ pc = "returned"
    /\ call.log = "Send error"

\* C2: when the write succeeded and the read timed out, the helper returns
\* to its caller and no exception is raised, in every probe helper.
C2_TimeoutDoesNotRaise ==
    (call.w = "ok" /\ call.cause = "timeout") => exc # "USBError"

\* C3: the values a helper returns for a read timeout, for another read
\* error and for a send failure are pairwise different.
C3_FailuresReturnDistinctValues ==
    \A p \in returned : \A q \in returned :
        p.cause # q.cause => p.ret # q.ret

\* C4: a failed exchange (send failure or non-timeout read error) never
\* reaches the caller as a percentage.
C4_NoDefaultScoreForFailure ==
    (call.done /\ pc = "returned" /\ call.cause \in {"send_failed", "read_error"})
        => call.ret.kind # "pct"

\* C5: a script that has claimed the interface has released it whenever it
\* has exited, whatever the exit path.
C5_ReleasedOnEveryExit ==
    pc = "exited" => ~claimed

\* C6: a command probe performs exactly one dev.write and at most one
\* dev.read per IN endpoint it reads; nothing is sent or read a second time.
C6_OneWriteOneReadPerEndpoint ==
    call.iscmd =>
        /\ call.wcount <= 1
        /\ (pc # "call" => call.wcount = 1)
        /\ \A e \in AllEndpoints : call.rcount[e] <= 1
        /\ \A e \in ReadsAttempted :
               \E k \in 1..Len(Endpoints(call.helper)) : Endpoints(call.helper)[k] = e

\* a command probe whose read timed out has returned: one write, one read
C6_Witness ==
    /\ call.iscmd
    /\ call.cause = "timeout"
    /\ pc = "returned"
    /\ call.wcount = 1
    /\ call.rcount[bulk_in] = 1

\* C7: a buffer a helper returns as the response has at least one byte and
\* at most max_len bytes.
C7_ReceivedBufferNonEmpty ==
    call.ret.kind = "buf" =>
        /\ BufLen(call.ret.buf) >= 1
        /\ BufLen(call.ret.buf) <= call.max_len

\* C8: at most one transport operation is in progress on the device handle,
\* it belongs to the command being sent, and while a write is in progress
\* no read is.
C8_StrictlySequential ==
    /\ Cardinality(inflight) <= 1
    /\ \A o \in inflight : o.cmd = i
    /\ (pc = "writing" => \A o \in inflight : o.op = "write")
    /\ (pc \in {"idle", "call", "toread", "returned"} => inflight = {})

\* the second command is being written after the first one's read ended
C8_Witness ==
    /\ i = 2
    /\ pc = "writing"
    /\ inflight = {[op |-> "write", ep |-> bulk_out, cmd |-> 2]}
    /\ returned # {}

Classified == cresult # PendingResult

\* C9: the classifier's non-zero ratio is defined for every buffer (no
\* exception, the empty buffer included) and is 0 exactly when the buffer is
\* empty or all zero.
C9_RatioZeroIffAllZero ==
    Classified =>
        /\ cresult.exc = "none"
        /\ (cresult.has_pct => (cresult.nz = 0 <=> NonZeroBytes(cbuf) = 0))

AllZeroClassified ==
    /\ Classified
    /\ cvariant \in AcqVariants
    /\ cbuf # <<>>
    /\ NonZeroBytes(cbuf) = 0

FullyNonZeroClassified ==
    /\ Classified
    /\ cvariant \in AcqVariants
    /\ cbuf # <<>>
    /\ NonZeroBytes(cbuf) = BufLen(cbuf)

\* C12: a buffer whose bytes are all non-zero gets ratio 1.0 and a tier
\* above the lowest one (neither "No data" nor POOR); [1,2,3,4]*25 has
\* distinct count 4.
C12_FullyNonZeroAboveLowest ==
    FullyNonZeroClassified =>
        /\ cresult.has_pct
        /\ cresult.nz = cresult.total
        /\ cresult.status \notin {"No data", "POOR"}
        /\ (cbuf = <<Seg(1, 4, 25)>> => cresult.unique = 4)

\* analyze_capture_quality has computed a percentage for the buffer
AnalysedBuffer ==
    /\ Classified
    /\ cvariant \in AcqVariants
    /\ cresult.has_pct

\* buffers the classified one is compared with
OtherBuffers == SeqsUpTo(Segs, 1)

\* nz1/n1 = nz2/n2
SameRatio(r1, r2) == r1.nz * r2.total = r2.nz * r1.total

\* C13 as stated: two buffers with the same non-zero ratio get the same
\* tier, whatever their distinct-value count.
C13_TierFromRatioAlone ==
    AnalysedBuffer =>
        \A b2 \in OtherBuffers :
            LET r2 == Classify(cvariant, b2) IN
            (r2.has_pct /\ SameRatio(cresult, r2)) => r2.status = cresult.status

\* C13 amended: for buffers of at least 100 bytes the tier is a function of
\* the non-zero ratio and the distinct-value count together: two buffers
\* that agree on both get the same tier, whatever their length, byte order
\* or variance (the buffer repeated twice included).
C13_TierFromRatioAndDistinctCount ==
    AnalysedBuffer =>
        /\ Classify(cvariant, cbuf \o cbuf).status = cresult.status
        /\ \A b2 \in OtherBuffers :
               (/\ BufLen(b2) >= MinAnalysisLen
                /\ Cardinality(ByteValues(b2)) = cresult.unique) =>
                   LET r2 == Classify(cvariant, b2) IN
                   (r2.has_pct /\ SameRatio(cresult, r2) /\ r2.unique = cresult.unique)
                       => r2.status = cresult.status

\* a two-segment buffer has been classified, and a buffer of another length
\* has the same ratio and the same distinct count
C13_Witness ==
    /\ AnalysedBuffer
    /\ Len(cbuf) = 2
    /\ \E b2 \in OtherBuffers :
           LET r2 == Classify(cvariant, b2) IN
           /\ r2.has_pct
           /\ r2.total # cresult.total
           /\ SameRatio(cresult, r2)
           /\ r2.unique = cresult.unique

\* C14: whenever a classifier computes the non-zero ratio of a buffer, it
\* lies between 0 and 1 (the percentage between 0 and 100).
C14_RatioWithinUnitInterval ==
    (Classified /\ cresult.has_pct) =>
        /\ cresult.total > 0
        /\ 0 <= cresult.nz
        /\ cresult.nz <= cresult.total

\* a buffer with both zero and non-zero bytes has been analysed
C14_Witness ==
    /\ AnalysedBuffer
    /\ cresult.nz = NonZeroBytes(cbuf)
    /\ 0 < cresult.nz
    /\ cresult.nz < cresult.total

\* the byte values 0..255 that occur somewhere in the classified buffer
OccurringValues ==
    {v \in 0..255 : \E k \in 1..Len(cbuf) : cbuf[k].lo <= v /\ v <= cbuf[k].hi}

C17_TimeoutDoesNotStopCommandList ==
    /\ \A k \in 1..Len(sent) : sent[k] = k
    /\ (pc = "exited" /\ call.iscmd /\ call.w = "ok" /\ call.cause = "timeout"
          /\ exc # "KeyboardInterrupt")
           => Len(sent) = MaxCmds

\* exits of a script whose usb.core.find returned no device
DeviceNotFoundExits == {"DeviceNotFound", "ValueError: Device not found", "AttributeError"}

\* C18: when the device is not found the script reports that and stops
\* without claiming, writing, reading or releasing; it does not end with an
\* unrelated exception.
C18_DeviceNotFoundReported ==
    exitKind \in DeviceNotFoundExits =>
        /\ exitKind # "AttributeError"
        /\ ~claimed
        /\ ~released
        /\ sent = <<>>
        /\ call = NoCall

\* C19: no step of a probe changes a module-level variable of the script.
C19_ProbeChangesNoProgramState ==
    [][data_received' = data_received]_vars

\* an analysed buffer whose non-zero percentage lies between the two top-tier
\* cut points (above 30, not above 50) and whose entropy is above 0.4
BetweenTopTierCutPoints ==
    /\ AnalysedBuffer
    /\ BufLen(cbuf) >= MinAnalysisLen
    /\ 100 * NonZeroBytes(cbuf) > 30 * BufLen(cbuf)
    /\ 100 * NonZeroBytes(cbuf) <= 50 * BufLen(cbuf)
    /\ 10 * Cardinality(OccurringValues) > 4 * 256

\* C20: the two analyze_capture_quality variants disagree on buffers of at
\* least 100 bytes whose percentage lies between their top-tier cut points:
\* the adaptive variant (> 30) says EXCELLENT, the eh575 variant (> 50) does
\* not.
C20_VariantsDisagree ==
    BetweenTopTierCutPoints =>
        /\ analyze_capture_quality_adaptive(cbuf).status = "EXCELLENT"
        /\ analyze_capture_quality_eh575(cbuf).status = "GOOD"
        /\ cresult.status =
               (IF cvariant = "analyze_capture_quality_adaptive" THEN "EXCELLENT" ELSE "GOOD")

\* the eh575 variant has called GOOD a buffer the adaptive one calls EXCELLENT
C20_Witness ==
    /\ BetweenTopTierCutPoints
    /\ cvariant = "analyze_capture_quality_eh575"
    /\ cresult.status = "GOOD"
    /\ analyze_capture_quality_adaptive(cbuf).status = "EXCELLENT"

\* scripts built as connect_device() + main() with try/finally
TryFinallyScripts == SendAndReceiveScripts \cup {"enhanced_test"}

\* C21: in the connect_device() + main() scripts, once the device is
\* claimed, every exit has called release_interface exactly once, after the
\* last transport operation, and the reattach comes only after the release
\* and leaves the way main ends unchanged; nothing is released before the
\* exit.
C21_ReleasedOnceThenReattach ==
    (script \in TryFinallyScripts /\ exitKind \notin {"DeviceNotFound", "PermissionError"}) =>
        IF pc = "exited"
        THEN /\ Len(cleanup) = 2
             /\ cleanup[1] = "release_interface"
             /\ cleanup[2] \in {"attach_kernel_driver", "attach_kernel_driver: error ignored"}
             /\ released /\ ~claimed
             /\ inflight = {}
             /\ exitKind \in {"normal", "stopped", exc}
        ELSE cleanup = <<>> /\ ~released

\* adaptive_calibration has ended on Ctrl+C after a command was written, and
\* the reattach raised
C21_Witness ==
    /\ script = "adaptive_calibration"
    /\ pc = "exited"
    /\ exc = "KeyboardInterrupt"
    /\ sent # <<>>
    /\ cleanup = <<"release_interface", "attach_kernel_driver: error ignored">>

\* C22: a dev.write or dev.read is in progress, or about to be made, only
\* while the interface is claimed: after claim_interface has succeeded and
\* before release_interface.
C22_TransportOnlyWhileClaimed ==
    /\ (inflight # {} \/ pc \in {"call", "writing", "toread", "reading"})
           => (claimed /\ ~released /\ cleanup = <<>>)
    /\ (~claimed /\ ~released) => sent = <<>>
    /\ released => (inflight = {} /\ pc = "exited")

\* polling is inside a dev.read of its monitoring loop
C22_Witness ==
    /\ script = "polling"
    /\ phase = "monitor"
    /\ \E o \in inflight : o.op = "read"
    /\ claimed

\* the score the k-th variant's capture is worth: that of the buffer the
\* device returned, 0 when the capture timed out or failed
VariantScore(k) ==
    IF observed.seq[k].responded
    THEN analyze_capture_quality_adaptive(observed.seq[k].buf).score
    ELSE ZeroScore

\* C23: in run_adaptive_calibration best_score is the maximum of 0 and the
\* scores of the variants tested so far, best_variant names the first variant
\* that reached that maximum (None while no variant scored above 0), a
\* capture that timed out or failed counts as 0, and the function reports
\* success exactly when the final best_score is above 10.
C23_BestIsFirstMaximum ==
    routine = "run_adaptive_calibration" =>
        LET n == Len(observed.seq) IN
        /\ \A k \in 1..n : ~score_gt(VariantScore(k), best_score)
        /\ IF \E k \in 1..n : score_gt(VariantScore(k), ZeroScore)
           THEN \E k \in 1..n :
                    /\ best_variant = observed.seq[k].name
                    /\ best_score = VariantScore(k)
                    /\ \A j \in 1..(k - 1) : score_gt(VariantScore(k), VariantScore(j))
           ELSE best_variant = "None" /\ best_score = ZeroScore
        /\ result.done <=> rpc = "returned"
        /\ result.done =>
               /\ n = 4
               /\ result.value <=> score_gt_const(best_score, 10)
               /\ result.name = best_variant

\* the first capture failed, the second and third reached the same score
\* with different buffers, and the second is reported
C23_Witness ==
    /\ routine = "run_adaptive_calibration"
    /\ result.done
    /\ result.value
    /\ best_variant = "EH575 Minimal"
    /\ ~observed.seq[1].responded
    /\ observed.seq[2].buf = <<Seg(0, 120, 1)>>
    /\ observed.seq[3].buf = <<Seg(0, 120, 2)>>

\* C24: execute_repeat_cycle returns after at most 10 cycles whatever the
\* device does; successful_captures <= cycle_count <= 10 throughout,
\* successful_captures is the number of cycles whose final capture was
\* rated GOOD or EXCELLENT, and the function returns true iff it is positive.
C24_RepeatCycleTerminates ==
    /\ [](routine = "execute_repeat_cycle" =>
              /\ successful_captures <= cycle_count
              /\ cycle_count <= 10
              /\ observed.cycles <= cycle_count
              /\ successful_captures = observed.good
              /\ rpc # "raised"
              /\ result.done <=> rpc = "returned"
              /\ result.done => (result.value <=> successful_captures > 0))
    /\ <>(routine = "execute_repeat_cycle" => rpc = "returned")

\* ten cycles ran, some of them rated GOOD or EXCELLENT and some not
C24_Witness ==
    /\ routine = "execute_repeat_cycle"
    /\ rpc = "returned"
    /\ cycle_count = 10
    /\ observed.cycles = 10
    /\ successful_captures = 3
    /\ result.value

\* the test a capture file's contents passed, by the place that wrote it
GatePassed(f) ==
    CASE f.site \in {VariantNames[k] : k \in 1..4} ->
             score_gt_const(analyze_capture_quality_adaptive(f.buf).score, 10)
      [] f.site \in {"fingerprint_cycle", "fingerprint_fair"} ->
             analyze_capture_quality_eh575(f.buf).status \in {"GOOD", "EXCELLENT", "FAIR"}
      [] f.site \in {"fingerprint_capture", "fingerprint_monitor"} ->
             BufLen(f.buf) > 100
      [] f.site = "rapid_capture" ->
             BufLen(f.buf) > 100 /\ 100 * NonZeroBytes(f.buf) > 5 * BufLen(f.buf)
      [] OTHER -> TRUE

\* the file written in a step holds the buffer the step's probe returned
WrittenFromResponse(f) == response'.kind = "buf" /\ f.buf = response'.buf

\* C25 as stated: a capture file is written only with the buffer the probe
\* returned, and only when it passed the script's gate, which for every file
\* written by adaptive_calibration is score > 10.
C25_FileOnlyForGatedResponse ==
    [][\A f \in files' \ files :
           /\ WrittenFromResponse(f)
           /\ GatePassed(f)
           /\ f.site = "param_test" =>
                  score_gt_const(analyze_capture_quality_adaptive(f.buf).score, 10)]_vars

\* C25 amended: a capture file is written only with the buffer the probe
\* returned, never after a timed-out or failed probe, and only when the
\* buffer passed the gate of the place that writes it: score > 10 in
\* test_calibration_variant and the timing-sensitive variant, a score above
\* the best score of test_parameter_variations so far (any score above 0 for
\* the first), tier GOOD/EXCELLENT/FAIR in execute_repeat_cycle, length > 100
\* in capture_fingerprint, length > 100 and non-zero ratio > 0.05 in the
\* rapid captures.
C25_FileOnlyForResponsePassingItsGate ==
    [][\A f \in files' \ files :
           /\ WrittenFromResponse(f)
           /\ GatePassed(f)
           /\ f.site = "param_test" =>
                  /\ score_gt(analyze_capture_quality_adaptive(f.buf).score, best_score)
                  /\ best_score' = analyze_capture_quality_adaptive(f.buf).score]_vars

\* test_parameter_variations saved a response scoring below 10 and then a
\* better one
C25_Witness ==
    /\ routine = "test_parameter_variations"
    /\ File("param_test", <<Seg(1, 4, 25)>>) \in files
    /\ File("param_test", <<Seg(0, 120, 1)>>) \in files
    /\ response = BufV(<<Seg(0, 120, 1)>>)

\* the description dev.write is called for at the k-th step of the search
SearchStep(k) ==
    CASE (k - 1) % 3 = 0 -> "Reset"
      [] (k - 1) % 3 = 1 -> critical_candidates[((k - 1) \div 3) + 1]
      [] (k - 1) % 3 = 2 -> "BG Test"

\* C26: the candidate search writes, for each candidate in list order, the
\* reset, the candidate and the background capture; it stops at the first
\* candidate whose background result is above 1.0, after which nothing is
\* written; a failed probe counts as 0 and the search goes on to the end of
\* the list.
C26_CandidatesInOrderUntilFound ==
    routine = "critical_candidates" =>
        LET n == Len(observed.seq) IN
        /\ rpc # "raised"
        /\ n <= 18
        /\ \A k \in 1..n : observed.seq[k].write = SearchStep(k)
        /\ \A k \in 1..n :
               observed.seq[k].above =>
                   /\ k = n
                   /\ rpc = "returned"
                   /\ result = Returned(TRUE, critical_candidates[k \div 3])
        /\ (rpc = "returned" /\ ~observed.seq[n].above) =>
               (n = 18 /\ result = Returned(FALSE, "None"))
        /\ rpc = "run" => n = iter

\* the third candidate was the first with a background result above 1.0
C26_Witness ==
    /\ routine = "critical_candidates"
    /\ rpc = "returned"
    /\ Len(observed.seq) = 9
    /\ observed.seq[9].above
    /\ result.name = "EH575 Sensor Setup"

\* C27: analyze_file returns a (size, non_zero_bytes, entropy) triple for
\* every file, the empty and the unreadable one included, and main's summary
\* never fails.
C27_AnalyzeFileAlwaysTriple ==
    routine = "analyze_captures_main" =>
        /\ \A k \in 1..Len(results) : results[k].kind = "tuple"
        /\ rpc # "raised"

\* C28: in test_egis_device success_count is the number of commands whose
\* write succeeded and whose read returned a buffer, never more than the
\* commands sent; a timeout or a read error adds nothing; the function
\* returns true, and the process exits with status 0, iff success_count > 0
\* when the command list is through.
C28_SuccessCountCountsResponses ==
    routine = "test_egis_device" =>
        LET seq == observed.seq
            responded == {k \in 1..Len(seq) : seq[k] = "buffer"}
            written == {k \in 1..Len(seq) : seq[k] # "not sent"}
        IN /\ success_count = Cardinality(responded)
           /\ success_count <= Cardinality(written)
           /\ rpc = "run" => (exit_status = -1 /\ ~result.done)
           /\ rpc = "returned" =>
                  /\ Len(seq) = 5
                  /\ result = Returned(success_count > 0, "None")
                  /\ exit_status = 0 <=> success_count > 0
                  /\ exit_status \in {0, 1}
           /\ rpc = "raised" => (exit_status = 1 /\ ~result.done)

\* a timeout and a read error, then two responses
C28_Witness ==
    /\ routine = "test_egis_device"
    /\ rpc = "returned"
    /\ observed.seq[1] = "timeout"
    /\ observed.seq[2] = "error"
    /\ observed.seq[3] = "not sent"
    /\ success_count = 2
    /\ exit_status = 0

\* POOR < FAIR < GOOD < EXCELLENT
TierRank(status) ==
    CASE status = "POOR" -> 1
      [] status = "FAIR" -> 2
      [] status = "GOOD" -> 3
      [] status = "EXCELLENT" -> 4

\* C29: both analyze_capture_quality variants give a buffer shorter than 100
\* bytes (the empty one included) "No data" and no tier (score 0 in the
\* adaptive variant); among buffers of at least 100 bytes with the same
\* number of distinct values, a higher non-zero percentage never gets a
\* lower tier.
C29_NoTierWhenShortAndTierMonotone ==
    (Classified /\ cvariant \in AcqVariants) =>
        IF BufLen(cbuf) < MinAnalysisLen
        THEN cresult = NoData
        ELSE /\ cresult.status \in {"POOR", "FAIR", "GOOD", "EXCELLENT"}
             /\ \A b2 \in OtherBuffers :
                    (/\ BufLen(b2) >= MinAnalysisLen
                     /\ Cardinality(ByteValues(b2)) = cresult.unique) =>
                        LET r2 == Classify(cvariant, b2) IN
                        /\ r2.nz * cresult.total >= cresult.nz * r2.total
                               => TierRank(r2.status) >= TierRank(cresult.status)
                        /\ r2.nz * cresult.total <= cresult.nz * r2.total
                               => TierRank(r2.status) <= TierRank(cresult.status)

\* a buffer rated FAIR, and one with the same 31 distinct values and a
\* higher non-zero percentage rated GOOD
C29_Witness ==
    /\ Classified
    /\ cvariant = "analyze_capture_quality_eh575"
    /\ cbuf = <<Seg(0, 0, 200), Seg(0, 30, 1)>>
    /\ cresult.status = "FAIR"
    /\ Classify(cvariant, <<Seg(0, 30, 25)>>).status = "GOOD"

====
